---- MODULE Spec2Model ----
(***************************************************************************)
(* Ticket lifecycle of pulse-backend: the Express routes of routes/tickets *)
(* with their middleware, the handlers of ticketController.js and the SQL  *)
(* statements they issue, one action per statement.  A handler is an async *)
(* function: it runs atomically between two awaits, and every await of a   *)
(* query is a point where another request may run.                         *)
(***************************************************************************)
EXTENDS Integers, Sequences, FiniteSets, TLC

\* ---------------------------------------------------------------- bounds
MaxTickets == 1
MaxRequests == 2
MaxInflight == 2

\* ------------------------------------------------------------- constants
NULL == "NULL"

Statuses == {"Pending Approval", "Open", "In Progress", "Resolved", "Closed", "Rejected"}

\* body('status').isIn([...]) of validateUpdateTicketStatus
UpdatableStatuses == {"Open", "In Progress", "Pending Approval", "Resolved", "Closed"}

\* what a caller may put in req.body.status of PUT /:id/status
StatusInputs == Statuses \cup {"Bogus"}

\* what a caller may put in req.body.status of PUT /:id/remark: one value of each
\* kind the handler treats alike (a status, 'Resolved', a string that is no status)
RemarkStatusInputs == {"Open", "Resolved", "Bogus"}

\* what a caller may put in req.body.remark
RemarkInputs == {"", "r"}

\* the Users table: id -> role, is_admin, email
Users == 1..4
Role == <<"general_user", "digital_team", "manager", "admin">>
is_admin == <<FALSE, FALSE, FALSE, TRUE>>
Email == <<"u1@x", "u2@x", "u3@x", "u4@x">>

DIGITAL_TEAM_EMAIL == "digital@x"
MANAGER_EMAIL == "manager@x"

\* req.body.assigned_to: absent (0), or a user id
AssigneeInputs == {0, 2}

\* callers of the two triage routes: one the gate denies and one it admits (the
\* manager and the admin, whose roles are in the routes' lists too, are admitted alike)
TriageCallers == {1, 2}

Slots == 1..MaxInflight
TicketIds == 1..MaxTickets

VARIABLES
    tickets,        \* the Tickets table: row i is the ticket with id i
    history,        \* the TicketHistory table, in insertion order
    jobs,           \* notification jobs started so far (sendEmailWithCC calls)
    req,            \* the requests in flight: slot -> request record
    nreq,           \* number of requests received
    clock,          \* GETDATE(): ticks with every statement that writes a ticket's status
    faults,         \* whether the storage may fail a statement in this run
    adminActions,   \* the AdminActions table, in insertion order
    seeded,         \* which store the run started from (see Seeds)
    approvedWrites, \* per ticket: number of times approved_by/approved_at were written
    rejectedWrites, \* per ticket: number of times rejected_by/rejected_at were written
    everResolved    \* per ticket: whether its status has ever been Resolved

\* one run of sendEmailWithCC (the dispatch of one notification job)
VARIABLES
    dpc,            \* where the run stands: off, called, connect, send, pushed, returned
    job,            \* its arguments: [to, cc]
    cur,            \* the recipient at hand: 0 = the primary, i = ccList[i]
    attempt,        \* the loop counter of the retry loop at hand
    connects,       \* soap.createClientAsync calls made for the recipient at hand
    handles,        \* SOAP clients created for the recipient at hand
    posts,          \* client.SendMailHTMLAsync calls made for the recipient at hand
    waits,          \* the setTimeout delays (ms) awaited for the recipient at hand
    pauses,         \* number of pauses made after a copy
    thrown,         \* the errors sendEmail has thrown, in order: [recipient, error]
    results,        \* the results array
    ret,            \* the object returned
    calls,          \* calls made to the gateway (createClientAsync, SendMailHTMLAsync)
    cleanups,       \* runs of the finally block of sendEmail with a client at hand,
                    \* for the recipient at hand
    destroyed,      \* how that run went (see CleanupOutcomes)
    gateway,        \* error.message of the failures the gateway calls may end in
    caught,         \* error.message of the errors the catch block of sendEmail caught
    sent            \* SendMailHTMLAsync calls that resolved, for the recipient at hand

mailer == <<dpc, job, cur, attempt, connects, handles, posts, waits, pauses, thrown,
            results, ret, calls, cleanups, destroyed, gateway, caught, sent>>

vars == <<tickets, history, jobs, req, nreq, clock, faults, seeded,
          approvedWrites, rejectedWrites, everResolved, mailer, adminActions>>

store == <<tickets, history, jobs>>
ghosts == <<seeded, approvedWrites, rejectedWrites, everResolved>>

\* outcomes of one statement sent to the pool: TRUE = executed, FALSE = threw
DbOutcomes == IF faults THEN BOOLEAN ELSE {TRUE}

Exists(id) == id \in 1..Len(tickets)

\* an integer column or parameter that is NULL / absent is written 0;
\* wrote observes the status the request's own statement stored in Tickets
IdleReq == [op |-> NULL, user |-> 0, id |-> 0, status |-> NULL, assigned_to |-> 0,
            remark |-> NULL, pc |-> "idle", code |-> 0, created_by_email |-> NULL,
            wrote |-> NULL, email |-> NULL]

\* ------------------------------------------------------------ middleware
\* mutant of authorizeRoles: the role check is skipped
authorizeRoles_AnyRole(allowedRoles, u) == u \in Users

authorizeRoles(allowedRoles, u) ==
    LET isAdmin == is_admin[u] = TRUE \/ Role[u] = "admin"
    IN  isAdmin \/ Role[u] \in allowedRoles

validateUpdateTicketStatus(st) == st \in UpdatableStatuses

validateTicketRemark(rm) == rm # NULL /\ rm # ""

\* ------------------------------------------------------------ helpers
NewTicket(u, requiresApproval, status) ==
    [status |-> status, created_by |-> u, requires_manager_approval |-> requiresApproval,
     assigned_to |-> 0, remark |-> NULL,
     approved_by |-> 0, approved_at |-> 0,
     rejected_by |-> 0, rejected_at |-> 0, resolved_at |-> 0, is_deleted |-> FALSE]

HistoryRow(ticketId, changedBy, fieldName, oldValue, newValue, changeReason) ==
    [ticket_id |-> ticketId, changed_by |-> changedBy, field_name |-> fieldName,
     old_value |-> oldValue, new_value |-> newValue, change_reason |-> changeReason]

\* mutant of logTicketHistory: old and new value are swapped in the INSERT
logTicketHistory_Swapped(ok, ticketId, changedBy, fieldName, oldValue, newValue, changeReason) ==
    history' = IF ok
               THEN Append(history, HistoryRow(ticketId, changedBy, fieldName,
                                               newValue, oldValue, changeReason))
               ELSE history

\* logTicketHistory: one INSERT INTO TicketHistory; an error is caught and dropped
logTicketHistory(ok, ticketId, changedBy, fieldName, oldValue, newValue, changeReason) ==
    history' = IF ok
               THEN Append(history, HistoryRow(ticketId, changedBy, fieldName,
                                               oldValue, newValue, changeReason))
               ELSE history

\* bookkeeping of the observers after a write to Tickets
Observe(newTickets) ==
    everResolved' = [t \in TicketIds |->
                        everResolved[t] \/ (t <= Len(newTickets) /\ newTickets[t].status = "Resolved")]

\* the response is sent: what stays of the request is who asked what, and the status code
Responded(r, code) ==
    [IdleReq EXCEPT !.op = r.op, !.user = r.user, !.id = r.id, !.pc = "done", !.code = code]

Finish(s, code) == req' = [req EXCEPT ![s] = Responded(req[s], code)]

\* how the awaited notifier may end: with a result whose recipients all succeeded,
\* partly failed or all failed, or with an exception
EmailOutcomes == {"all sent", "some failed", "all failed", "threw"}

\* mutant of AfterEmail: an exception of the notifier reaches the outer catch
AfterEmail_Rethrown(outcome, code) == IF outcome = "threw" THEN 500 ELSE code

\* try { await notify...() } catch (emailError) { } followed by sendResponse(res, code, ...)
AfterEmail(outcome, code) == code

\* the response that follows the notifier; the request's record keeps how the notifier ended
FinishNotified(s, code) ==
    \E o \in EmailOutcomes :
       req' = [req EXCEPT ![s] = [Responded(req[s], AfterEmail(o, code)) EXCEPT !.email = o]]
Goto(s, pc) == req' = [req EXCEPT ![s].pc = pc]

\* the request's statement has written Tickets: on to the next await
Written(s, pc) ==
    req' = [req EXCEPT ![s] = [@ EXCEPT !.pc = pc, !.wrote = tickets'[req[s].id].status]]

\* a request is tracked in the first slot that tracks no request in flight
Free(s) == req[s].pc \in {"idle", "done"}

CanStart(s) ==
    /\ Free(s)
    /\ \A q \in Slots : q < s => ~Free(q)
    /\ nreq < MaxRequests

Arrive(s, r, allowed, valid, first) ==
    /\ nreq' = nreq + 1
    /\ req' = [req EXCEPT ![s] =
                 IF ~allowed THEN Responded(r, 403)
                 ELSE IF ~valid THEN Responded(r, 400)
                 ELSE [r EXCEPT !.pc = first]]
    /\ UNCHANGED <<store, clock, faults, mailer, adminActions, ghosts>>

\* ------------------------------------------------- POST /api/tickets
\* mutant of RequiresApproval: only the digital team is flagged
RequiresApproval_DigitalOnly(u) == Role[u] = "digital_team"

\* const requiresApproval = req.user.role === 'digital_team' || req.user.role === 'admin'
RequiresApproval(u) == Role[u] = "digital_team" \/ Role[u] = "admin"

\* (the model stops accepting creations once MaxTickets rows exist or are about to)
CreateTicketRequest(s) ==
    /\ CanStart(s)
    /\ Len(tickets) + Cardinality({q \in Slots : req[q].pc = "c_insert"}) < MaxTickets
    /\ \E u \in Users :
          Arrive(s, [IdleReq EXCEPT !.op = "create", !.user = u], TRUE, TRUE, "c_insert")

\* INSERT INTO Tickets ... OUTPUT INSERTED.id
CreateInsert(s) ==
    /\ req[s].pc = "c_insert"
    /\ \E ok \in DbOutcomes :
          LET u == req[s].user
              requiresApproval == RequiresApproval(u)
              status == IF requiresApproval THEN "Pending Approval" ELSE "Open"
          IN  IF ok
              THEN /\ tickets' = Append(tickets, NewTicket(u, requiresApproval, status))
                   /\ clock' = clock + 1
                   /\ req' = [req EXCEPT ![s] = [@ EXCEPT !.pc = "c_log", !.id = Len(tickets) + 1,
                                                          !.status = status,
                                                          !.wrote = tickets'[Len(tickets) + 1].status]]
                   /\ Observe(tickets')
              ELSE /\ Finish(s, 500)
                   /\ UNCHANGED <<tickets, clock, everResolved>>
    /\ UNCHANGED <<history, jobs, nreq, faults, mailer, adminActions, seeded, approvedWrites, rejectedWrites>>

CreateLog(s) ==
    /\ req[s].pc = "c_log"
    /\ \E ok \in DbOutcomes :
          logTicketHistory(ok, req[s].id, req[s].user, "status", NULL, req[s].status, "Ticket created")
    /\ Goto(s, "c_notify")
    /\ UNCHANGED <<tickets, jobs, nreq, clock, faults, mailer, adminActions, ghosts>>

\* userData handed to the notifiers is {name, email}: it has no role
notifyTicketCreated(ticket, userEmail, userRole) ==
    [kind |-> "TicketCreated", ticket |-> ticket, to |-> DIGITAL_TEAM_EMAIL,
     cc |-> IF userRole # "digital_team" /\ userRole # "manager" THEN <<userEmail>> ELSE <<>>]

\* mutant of notifyManagerApproval: the creator is not copied
notifyManagerApproval_NoCC(ticket, userEmail) ==
    [kind |-> "ApprovalRequired", ticket |-> ticket, to |-> MANAGER_EMAIL, cc |-> <<>>]

notifyManagerApproval(ticket, userEmail) ==
    [kind |-> "ApprovalRequired", ticket |-> ticket, to |-> MANAGER_EMAIL,
     cc |-> IF userEmail # NULL THEN <<userEmail>> ELSE <<>>]

notifyTicketUpdated(ticket, createdByEmail, userEmail) ==
    [kind |-> "TicketUpdated", ticket |-> ticket, to |-> createdByEmail,
     cc |-> IF userEmail # NULL /\ userEmail # createdByEmail THEN <<userEmail>> ELSE <<>>]

\* mutant of CreateNotify: both notifiers are called
CreateNotify_Both(s) ==
    /\ req[s].pc = "c_notify"
    /\ LET u == req[s].user
       IN  jobs' = jobs \o <<notifyManagerApproval(req[s].id, Email[u]),
                             notifyTicketCreated(req[s].id, Email[u], NULL)>>
    /\ Goto(s, "c_respond")
    /\ UNCHANGED <<tickets, history, nreq, clock, faults, mailer, adminActions, ghosts>>

CreateNotify(s) ==
    /\ req[s].pc = "c_notify"
    /\ LET u == req[s].user
           requiresApproval == RequiresApproval(u)
       IN  jobs' = Append(jobs, IF requiresApproval
                                THEN notifyManagerApproval(req[s].id, Email[u])
                                ELSE notifyTicketCreated(req[s].id, Email[u], NULL))
    /\ Goto(s, "c_respond")
    /\ UNCHANGED <<tickets, history, nreq, clock, faults, mailer, adminActions, ghosts>>

\* the awaited notifier has returned (or thrown into the inner catch)
CreateRespond(s) ==
    /\ req[s].pc = "c_respond"
    /\ FinishNotified(s, 201)
    /\ UNCHANGED <<store, nreq, clock, faults, mailer, adminActions, ghosts>>

\* ------------------------------------------- PUT /api/tickets/:id/status
UpdateStatusRequest(s) ==
    /\ CanStart(s)
    /\ \E u \in TriageCallers, id \in TicketIds, st \in StatusInputs, a \in AssigneeInputs :
          Arrive(s, [IdleReq EXCEPT !.op = "status", !.user = u, !.id = id,
                                    !.status = st, !.assigned_to = a],
                 authorizeRoles({"manager", "digital_team", "admin"}, u),
                 validateUpdateTicketStatus(st), "u_update")

\* mutant of UpdateStatusRow: resolved_at is not written
UpdateStatusRow_NoResolvedAt(t, st, a, now) ==
    [t EXCEPT !.status = st,
              !.assigned_to = IF a # 0 THEN a ELSE @]

\* UPDATE Tickets SET status = @status [, assigned_to] [, resolved_at] WHERE id = @ticketId
UpdateStatusRow(t, st, a, now) ==
    [t EXCEPT !.status = st,
              !.assigned_to = IF a # 0 THEN a ELSE @,
              !.resolved_at = IF st = "Resolved" THEN now ELSE @]

UpdateTicketStatus(s) ==
    /\ req[s].pc = "u_update"
    /\ \E ok \in DbOutcomes :
          LET id == req[s].id
          IN  IF ~ok THEN /\ Finish(s, 500)
                          /\ UNCHANGED <<tickets, clock, everResolved>>
              ELSE IF ~Exists(id) THEN /\ Finish(s, 404)
                                       /\ UNCHANGED <<tickets, clock, everResolved>>
              ELSE /\ tickets' = [tickets EXCEPT ![id] =
                                     UpdateStatusRow(@, req[s].status, req[s].assigned_to, clock)]
                   /\ clock' = clock + 1
                   /\ Written(s, "u_log_status")
                   /\ Observe(tickets')
    /\ UNCHANGED <<history, jobs, nreq, faults, mailer, adminActions, seeded, approvedWrites, rejectedWrites>>

\* mutant of UpdateLogStatus: a failed audit INSERT fails the request
UpdateLogStatus_Throws(s) ==
    /\ req[s].pc = "u_log_status"
    /\ \E ok \in DbOutcomes :
          /\ logTicketHistory(ok, req[s].id, req[s].user, "status", NULL, req[s].status, "Status updated")
          /\ IF ~ok THEN Finish(s, 500)
             ELSE IF req[s].assigned_to # 0 THEN Goto(s, "u_log_assign") ELSE Finish(s, 200)
    /\ UNCHANGED <<tickets, jobs, nreq, clock, faults, mailer, adminActions, ghosts>>

\* mutant of UpdateLogStatus: the assignment is not logged
UpdateLogStatus_NoAssignLog(s) ==
    /\ req[s].pc = "u_log_status"
    /\ \E ok \in DbOutcomes :
          logTicketHistory(ok, req[s].id, req[s].user, "status", NULL, req[s].status, "Status updated")
    /\ Finish(s, 200)
    /\ UNCHANGED <<tickets, jobs, nreq, clock, faults, mailer, adminActions, ghosts>>

UpdateLogStatus(s) ==
    /\ req[s].pc = "u_log_status"
    /\ \E ok \in DbOutcomes :
          logTicketHistory(ok, req[s].id, req[s].user, "status", NULL, req[s].status, "Status updated")
    /\ IF req[s].assigned_to # 0 THEN Goto(s, "u_log_assign") ELSE Finish(s, 200)
    /\ UNCHANGED <<tickets, jobs, nreq, clock, faults, mailer, adminActions, ghosts>>

UpdateLogAssign(s) ==
    /\ req[s].pc = "u_log_assign"
    /\ \E ok \in DbOutcomes :
          logTicketHistory(ok, req[s].id, req[s].user, "assigned_to", NULL,
                           ToString(req[s].assigned_to), "Ticket assigned")
    /\ Finish(s, 200)
    /\ UNCHANGED <<tickets, jobs, nreq, clock, faults, mailer, adminActions, ghosts>>

\* ------------------------------------------- PUT /api/tickets/:id/remark
RemarkRequest(s) ==
    /\ CanStart(s)
    /\ \E u \in TriageCallers, id \in TicketIds, st \in RemarkStatusInputs, rm \in RemarkInputs :
          Arrive(s, [IdleReq EXCEPT !.op = "remark", !.user = u, !.id = id,
                                    !.status = st, !.remark = rm],
                 authorizeRoles({"manager", "digital_team", "admin"}, u),
                 validateTicketRemark(rm), "r_select")

\* mutant of RemarkSelect: an empty recordset is not answered, the handler goes on
RemarkSelect_NoLengthCheck(s) ==
    /\ req[s].pc = "r_select"
    /\ req' = [req EXCEPT ![s] = [@ EXCEPT !.pc = "r_update",
                     !.created_by_email = IF Exists(req[s].id)
                                          THEN Email[tickets[req[s].id].created_by]
                                          ELSE NULL]]
    /\ UNCHANGED <<store, nreq, clock, faults, mailer, adminActions, ghosts>>

\* mutant of RemarkSelect: the notification is sent as soon as the ticket is found
RemarkSelect_NotifyFirst(s) ==
    /\ req[s].pc = "r_select"
    /\ \E ok \in DbOutcomes :
          IF ~ok THEN Finish(s, 500)
          ELSE IF ~Exists(req[s].id) THEN Finish(s, 404)
          ELSE req' = [req EXCEPT ![s] = [@ EXCEPT !.pc = "r_notify",
                           !.created_by_email = Email[tickets[req[s].id].created_by]]]
    /\ UNCHANGED <<store, nreq, clock, faults, mailer, adminActions, ghosts>>

\* SELECT ... FROM Tickets t LEFT JOIN Users u ON t.created_by = u.id WHERE t.id = @ticketId
RemarkSelect(s) ==
    /\ req[s].pc = "r_select"
    /\ \E ok \in DbOutcomes :
          IF ~ok THEN Finish(s, 500)
          ELSE IF ~Exists(req[s].id) THEN Finish(s, 404)
          ELSE req' = [req EXCEPT ![s] = [@ EXCEPT !.pc = "r_update",
                           !.created_by_email = Email[tickets[req[s].id].created_by]]]
    /\ UNCHANGED <<store, nreq, clock, faults, mailer, adminActions, ghosts>>

\* UPDATE Tickets SET remark = @remark, status = @status [, resolved_at] WHERE id = @ticketId
RemarkRow(t, rm, st, now) ==
    [t EXCEPT !.remark = rm,
              !.status = st,
              !.resolved_at = IF st = "Resolved" THEN now ELSE @]

RemarkUpdate(s) ==
    /\ req[s].pc = "r_update"
    /\ \E ok \in DbOutcomes :
          LET id == req[s].id
          IN  IF ~ok THEN /\ Finish(s, 500)
                          /\ UNCHANGED <<tickets, clock, everResolved>>
              ELSE IF ~Exists(id) THEN /\ Finish(s, 404)
                                       /\ UNCHANGED <<tickets, clock, everResolved>>
              ELSE /\ tickets' = [tickets EXCEPT ![id] =
                                     RemarkRow(@, req[s].remark, req[s].status, clock)]
                   /\ clock' = clock + 1
                   /\ Written(s, "r_log_remark")
                   /\ Observe(tickets')
    /\ UNCHANGED <<history, jobs, nreq, faults, mailer, adminActions, seeded, approvedWrites, rejectedWrites>>

RemarkLogRemark(s) ==
    /\ req[s].pc = "r_log_remark"
    /\ \E ok \in DbOutcomes :
          logTicketHistory(ok, req[s].id, req[s].user, "remark", NULL, req[s].remark, "Remark added")
    /\ Goto(s, "r_log_status")
    /\ UNCHANGED <<tickets, jobs, nreq, clock, faults, mailer, adminActions, ghosts>>

RemarkLogStatus(s) ==
    /\ req[s].pc = "r_log_status"
    /\ \E ok \in DbOutcomes :
          logTicketHistory(ok, req[s].id, req[s].user, "status", NULL, req[s].status,
                           "Status updated with remark")
    /\ Goto(s, "r_notify")
    /\ UNCHANGED <<tickets, jobs, nreq, clock, faults, mailer, adminActions, ghosts>>

RemarkNotify(s) ==
    /\ req[s].pc = "r_notify"
    /\ jobs' = Append(jobs, notifyTicketUpdated(req[s].id, req[s].created_by_email,
                                                Email[req[s].user]))
    /\ Goto(s, "r_respond")
    /\ UNCHANGED <<tickets, history, nreq, clock, faults, mailer, adminActions, ghosts>>

RemarkRespond(s) ==
    /\ req[s].pc = "r_respond"
    /\ FinishNotified(s, 200)
    /\ UNCHANGED <<store, nreq, clock, faults, mailer, adminActions, ghosts>>

\* ------------------------------------------ PUT /api/tickets/:id/approve
ApproveRequest(s) ==
    /\ CanStart(s)
    /\ \E u \in Users, id \in TicketIds :
          Arrive(s, [IdleReq EXCEPT !.op = "approve", !.user = u, !.id = id],
                 authorizeRoles({"manager"}, u), TRUE, "a_update")

\* mutant of PendingWhere: the status is not part of the WHERE clause
PendingWhere_NoStatus(id) ==
    /\ Exists(id)
    /\ tickets[id].requires_manager_approval

\* mutant of PendingWhere: the WHERE clause tests the id and that the ticket is not closed
PendingWhere_NotClosed(id) ==
    /\ Exists(id)
    /\ tickets[id].status # "Closed"

\* WHERE id = @ticketId AND requires_manager_approval = 1 AND status = 'Pending Approval'
PendingWhere(id) ==
    /\ Exists(id)
    /\ tickets[id].requires_manager_approval
    /\ tickets[id].status = "Pending Approval"

\* UPDATE Tickets SET status = 'Open', approved_by = @approvedBy, approved_at = GETDATE() WHERE ...
ApproveTicket(s) ==
    /\ req[s].pc = "a_update"
    /\ \E ok \in DbOutcomes :
          LET id == req[s].id
          IN  IF ~ok THEN /\ Finish(s, 500)
                          /\ UNCHANGED <<tickets, clock, approvedWrites, everResolved>>
              ELSE IF ~PendingWhere(id) THEN /\ Finish(s, 404)
                                             /\ UNCHANGED <<tickets, clock, approvedWrites, everResolved>>
              ELSE /\ tickets' = [tickets EXCEPT ![id] =
                                     [@ EXCEPT !.status = "Open", !.approved_by = req[s].user,
                                               !.approved_at = clock]]
                   /\ clock' = clock + 1
                   /\ approvedWrites' = [approvedWrites EXCEPT ![id] = @ + 1]
                   /\ Written(s, "a_log")
                   /\ Observe(tickets')
    /\ UNCHANGED <<history, jobs, nreq, faults, mailer, adminActions, seeded, rejectedWrites>>

ApproveLog(s) ==
    /\ req[s].pc = "a_log"
    /\ \E ok \in DbOutcomes :
          logTicketHistory(ok, req[s].id, req[s].user, "status", "Pending Approval", "Open",
                           "Ticket approved")
    /\ Finish(s, 200)
    /\ UNCHANGED <<tickets, jobs, nreq, clock, faults, mailer, adminActions, ghosts>>

\* ------------------------------------------------ rejectTicket (managers)
RejectRequest(s) ==
    /\ CanStart(s)
    /\ \E u \in Users, id \in TicketIds :
          Arrive(s, [IdleReq EXCEPT !.op = "reject", !.user = u, !.id = id],
                 authorizeRoles({"manager"}, u), TRUE, "j_update")

\* UPDATE Tickets SET status = 'Rejected', rejected_by = @rejectedBy, rejected_at = GETDATE() WHERE ...
RejectTicket(s) ==
    /\ req[s].pc = "j_update"
    /\ \E ok \in DbOutcomes :
          LET id == req[s].id
          IN  IF ~ok THEN /\ Finish(s, 500)
                          /\ UNCHANGED <<tickets, clock, rejectedWrites, everResolved>>
              ELSE IF ~PendingWhere(id) THEN /\ Finish(s, 404)
                                             /\ UNCHANGED <<tickets, clock, rejectedWrites, everResolved>>
              ELSE /\ tickets' = [tickets EXCEPT ![id] =
                                     [@ EXCEPT !.status = "Rejected", !.rejected_by = req[s].user,
                                               !.rejected_at = clock]]
                   /\ clock' = clock + 1
                   /\ rejectedWrites' = [rejectedWrites EXCEPT ![id] = @ + 1]
                   /\ Written(s, "j_log")
                   /\ Observe(tickets')
    /\ UNCHANGED <<history, jobs, nreq, faults, mailer, adminActions, seeded, approvedWrites>>

RejectLog(s) ==
    /\ req[s].pc = "j_log"
    /\ \E ok \in DbOutcomes :
          logTicketHistory(ok, req[s].id, req[s].user, "status", "Pending Approval", "Rejected",
                           "Ticket rejected by manager")
    /\ Finish(s, 200)
    /\ UNCHANGED <<tickets, jobs, nreq, clock, faults, mailer, adminActions, ghosts>>

\* ------------------------------- DELETE /api/admin/tickets/:id (admin)
\* the permissions column of the Users table
Permissions == <<{}, {}, {}, {"delete_tickets"}>>

checkAdminAccess(u) == Role[u] = "admin" \/ is_admin[u] = TRUE

hasPermission(u, permission) == permission \in Permissions[u]

\* callers of the admin route: one the handler denies and the admin
DeleteCallers == {2, 4}

DeleteTicketRequest(s) ==
    /\ CanStart(s)
    /\ \E u \in DeleteCallers, id \in TicketIds :
          Arrive(s, [IdleReq EXCEPT !.op = "delete", !.user = u, !.id = id],
                 checkAdminAccess(u) /\ hasPermission(u, "delete_tickets"), TRUE, "d_select")

\* SELECT id, ticket_number, title FROM Tickets WHERE id = @ticketId
DeleteSelect(s) ==
    /\ req[s].pc = "d_select"
    /\ \E ok \in DbOutcomes :
          IF ~ok THEN Finish(s, 500)
          ELSE IF ~Exists(req[s].id) THEN Finish(s, 404)
          ELSE Goto(s, "d_update")
    /\ UNCHANGED <<store, nreq, clock, faults, mailer, adminActions, ghosts>>

\* mutant of DeleteUpdate: the ticket's audit entries are deleted with it
DeleteUpdate_Cascade(s) ==
    /\ req[s].pc = "d_update"
    /\ \E ok \in DbOutcomes :
          IF ~ok \/ ~Exists(req[s].id)
          THEN /\ Finish(s, 500)
               /\ UNCHANGED <<tickets, history>>
          ELSE /\ tickets' = [tickets EXCEPT ![req[s].id].is_deleted = TRUE]
               /\ history' = SelectSeq(history, LAMBDA h : h.ticket_id # req[s].id)
               /\ Goto(s, "d_log")
    /\ UNCHANGED <<jobs, nreq, clock, faults, mailer, adminActions, ghosts>>

\* ALTER TABLE Tickets ADD is_deleted (once; an error is caught and dropped), then
\* UPDATE Tickets SET is_deleted = 1, updated_at = GETDATE() WHERE id = @ticketId
DeleteUpdate(s) ==
    /\ req[s].pc = "d_update"
    /\ \E ok \in DbOutcomes :
          IF ~ok \/ ~Exists(req[s].id)
          THEN /\ Finish(s, 500)
               /\ UNCHANGED <<tickets, history>>
          ELSE /\ tickets' = [tickets EXCEPT ![req[s].id].is_deleted = TRUE]
               /\ history' = history
               /\ Goto(s, "d_log")
    /\ UNCHANGED <<jobs, nreq, clock, faults, mailer, adminActions, ghosts>>

\* logAdminAction: one INSERT INTO AdminActions; an error is caught and dropped
DeleteLog(s) ==
    /\ req[s].pc = "d_log"
    /\ \E ok \in DbOutcomes :
          adminActions' = IF ok
                          THEN Append(adminActions,
                                      [admin_user_id |-> req[s].user, action_type |-> "delete_ticket",
                                       target_type |-> "ticket", target_id |-> req[s].id])
                          ELSE adminActions
    /\ Finish(s, 200)
    /\ UNCHANGED <<store, nreq, clock, faults, mailer, ghosts>>

\* ------------------------------------------ emailController: dispatch
\* longest CC list handed to sendEmailWithCC
MaxCc == 2

EMAIL_MAX_RETRIES == 3
EMAIL_RETRY_DELAY == 2000
SEND_RETRIES == 2
SEND_RETRY_DELAY == 3000
CC_PAUSE == 1000

\* addresses a job may name
Addresses == {MANAGER_EMAIL, Email[1], Email[2]}

CcLists == UNION {[1..n -> Addresses] : n \in 0..MaxCc}

\* the (to, ccList) arguments of sendEmailWithCC
DispatchJobs == [to : Addresses, cc : CcLists]

\* error.message of a failed createClientAsync or SendMailHTMLAsync call
TransportErrors == {"ETIMEDOUT", "fault"}

\* what one transport call does: it resolves, or rejects with one of the errors
TransportOutcomes == {"ok"} \cup gateway

NoJob == [to |-> NULL, cc |-> <<>>]
NoSummary == [total |-> 0, successful |-> 0, failed |-> 0]
NoReturn == [success |-> FALSE, error |-> NULL, results |-> <<>>, summary |-> NoSummary]

Recipient == IF cur = 0 THEN job.to ELSE job.cc[cur]
RecipientType == IF cur = 0 THEN "primary" ELSE "cc"

\* mutant of ConnectDelay: the exponent is the attempt number
ConnectDelay_OffByOne(k) == EMAIL_RETRY_DELAY * 2^k

\* const delay = EMAIL_RETRY_DELAY * Math.pow(2, attempt - 1)
ConnectDelay(k) == EMAIL_RETRY_DELAY * 2^(k - 1)

\* mutant of SendDelay: the base delay of the connection retries is used
SendDelay_ConnectBase(k) == EMAIL_RETRY_DELAY * k

\* const delay = 3000 * attempt
SendDelay(k) == SEND_RETRY_DELAY * k

\* error.message of the failures Node, the HTTP client and the SOAP library report
GatewayErrors ==
    {"ETIMEDOUT", "timeout of 30000ms exceeded", "connect ECONNREFUSED",
     "getaddrinfo ENOTFOUND", "read ECONNRESET", "getaddrinfo EAI_AGAIN",
     "httpClient.request is not a function", "fault"}

\* the Error createSoapClientWithRetry throws after its last attempt:
\* `Failed to create SOAP client after ${retries} attempts: ${error.message}`
ConnectFailure(msg) ==
    CASE msg = "ETIMEDOUT" -> "Failed to create SOAP client after 3 attempts: ETIMEDOUT"
      [] msg = "timeout of 30000ms exceeded" ->
            "Failed to create SOAP client after 3 attempts: timeout of 30000ms exceeded"
      [] msg = "connect ECONNREFUSED" ->
            "Failed to create SOAP client after 3 attempts: connect ECONNREFUSED"
      [] msg = "getaddrinfo ENOTFOUND" ->
            "Failed to create SOAP client after 3 attempts: getaddrinfo ENOTFOUND"
      [] msg = "read ECONNRESET" ->
            "Failed to create SOAP client after 3 attempts: read ECONNRESET"
      [] msg = "getaddrinfo EAI_AGAIN" ->
            "Failed to create SOAP client after 3 attempts: getaddrinfo EAI_AGAIN"
      [] msg = "httpClient.request is not a function" ->
            "Failed to create SOAP client after 3 attempts: httpClient.request is not a function"
      [] OTHER -> "Failed to create SOAP client after 3 attempts: fault"

\* the substrings the catch block of sendEmail looks for
Markers ==
    {"timeout", "ETIMEDOUT", "ECONNREFUSED", "ENOTFOUND", "ECONNRESET", "getaddrinfo",
     "httpClient.request is not a function"}

\* String.prototype.includes on the messages above: a message of the gateway, or
\* the message createSoapClientWithRetry made of it, includes a marker when the
\* marker is part of the gateway's message (the prefix holds no marker)
includes(msg, marker) ==
    \E m \in GatewayErrors :
       /\ msg \in {m, ConnectFailure(m)}
       /\ marker \in CASE m = "ETIMEDOUT" -> {"ETIMEDOUT"}
                      [] m = "timeout of 30000ms exceeded" -> {"timeout"}
                      [] m = "connect ECONNREFUSED" -> {"ECONNREFUSED"}
                      [] m = "getaddrinfo ENOTFOUND" -> {"getaddrinfo", "ENOTFOUND"}
                      [] m = "read ECONNRESET" -> {"ECONNRESET"}
                      [] m = "getaddrinfo EAI_AGAIN" -> {"getaddrinfo"}
                      [] m = "httpClient.request is not a function" ->
                            {"httpClient.request is not a function"}
                      [] OTHER -> {}

\* mutant of ErrorMessage: the DNS check comes before the connection checks
ErrorMessage_DnsFirst(msg) ==
    IF includes(msg, "timeout") \/ includes(msg, "ETIMEDOUT")
    THEN "Email service timeout - this may be due to Azure network restrictions. Please check the email service availability."
    ELSE IF includes(msg, "getaddrinfo")
    THEN "DNS resolution failed - unable to resolve email service hostname."
    ELSE IF includes(msg, "ECONNREFUSED") \/ includes(msg, "ENOTFOUND")
    THEN "Cannot connect to email service - please verify the service URL and network connectivity."
    ELSE IF includes(msg, "ECONNRESET")
    THEN "Connection reset by email service - this may be due to Azure SNAT port limitations."
    ELSE IF includes(msg, "httpClient.request is not a function")
    THEN "SOAP client configuration error - HTTP client incompatibility in Azure environment."
    ELSE msg

\* the catch block of sendEmail: the message of the Error it throws
ErrorMessage(msg) ==
    IF includes(msg, "timeout") \/ includes(msg, "ETIMEDOUT")
    THEN "Email service timeout - this may be due to Azure network restrictions. Please check the email service availability."
    ELSE IF includes(msg, "ECONNREFUSED") \/ includes(msg, "ENOTFOUND")
    THEN "Cannot connect to email service - please verify the service URL and network connectivity."
    ELSE IF includes(msg, "ECONNRESET")
    THEN "Connection reset by email service - this may be due to Azure SNAT port limitations."
    ELSE IF includes(msg, "getaddrinfo")
    THEN "DNS resolution failed - unable to resolve email service hostname."
    ELSE IF includes(msg, "httpClient.request is not a function")
    THEN "SOAP client configuration error - HTTP client incompatibility in Azure environment."
    ELSE msg

\* mutant of safeEmailSend: the error of the email function is thrown on
safeEmailSend_NoCatch(threw, msg) ==
    [raised |-> threw, success |-> ~threw, error |-> IF threw THEN msg ELSE NULL]

\* safeEmailSend: { success: true, result } or, from its catch, { success: false, error }
safeEmailSend(threw, msg) ==
    [raised |-> FALSE, success |-> ~threw, error |-> IF threw THEN msg ELSE NULL]

\* mutant of DispatchResult: the job succeeded only if every email was sent
DispatchResult_AllSent(rs) ==
    LET successCount == Len(SelectSeq(rs, LAMBDA r : r.success))
        totalCount == Len(rs)
    IN  [success |-> successCount = totalCount, error |-> NULL, results |-> rs,
         summary |-> [total |-> totalCount, successful |-> successCount,
                      failed |-> totalCount - successCount]]

\* the object sendEmailWithCC returns from its try block
DispatchResult(rs) ==
    LET successCount == Len(SelectSeq(rs, LAMBDA r : r.success))
        totalCount == Len(rs)
    IN  [success |-> successCount > 0, error |-> NULL, results |-> rs,
         summary |-> [total |-> totalCount, successful |-> successCount,
                      failed |-> totalCount - successCount]]

\* mutant of SkipCc: no copy is skipped
SkipCc_Never(ccRecipient, to) == FALSE

\* if (ccRecipient === to) continue
SkipCc(ccRecipient, to) == ccRecipient = to

\* mutant of CcLeft: nothing is left once a send has failed
CcLeft_StopOnFailure ==
    IF results # <<>> /\ ~results[Len(results)].success THEN {}
    ELSE {k \in (cur + 1)..Len(job.cc) : ~SkipCc(job.cc[k], job.to)}

\* the CC entries the loop has still to send to
CcLeft == {k \in (cur + 1)..Len(job.cc) : ~SkipCc(job.cc[k], job.to)}

lifecycle == <<tickets, history, jobs, req, nreq, clock, faults, seeded,
               approvedWrites, rejectedWrites, everResolved, adminActions>>

\* sendEmailWithCC is called: up to the first await, inside sendEmail for the primary
SendEmailWithCC ==
    /\ dpc = "called"
    /\ dpc' = "connect"
    /\ UNCHANGED <<job, gateway, sent, cur, attempt, connects, handles, posts, waits, pauses,
                   thrown, caught, results, ret, calls, cleanups, destroyed, lifecycle>>

\* what the finally block of sendEmail does with the client: client.destroy() returns,
\* client.destroy() throws, or the client has no destroy function
CleanupOutcomes == {"destroyed", "threw", "no destroy"}

\* mutant of Cleanup: an error of client.destroy() leaves the finally block
Cleanup_NoCatch(c, outcome) ==
    IF c = "threw" THEN [threw |-> TRUE, msg |-> "cleanup"] ELSE outcome

\* finally { if (client && typeof client.destroy === 'function')
\*             try { client.destroy() } catch (cleanupError) { console.warn(...) } }
\* what sendEmail returned or threw stays as it was
Cleanup(c, outcome) == outcome

\* sendEmail has settled for the recipient at hand: its finally block runs, then
\* safeEmailSend returns, and the entry is pushed or the error goes on to the catch
\* block of sendEmailWithCC
Settle(threw, msg) ==
    \E c \in (IF handles > 0 THEN CleanupOutcomes ELSE {NULL}) :
       LET settled == [threw |-> threw, msg |-> IF threw THEN ErrorMessage(msg) ELSE NULL]
           out == IF c = NULL THEN settled ELSE Cleanup(c, settled)
           w == safeEmailSend(out.threw, out.msg)
       IN  /\ cleanups' = IF c = NULL THEN cleanups ELSE cleanups + 1
           /\ destroyed' = IF c = NULL THEN destroyed ELSE c
           /\ thrown' = IF threw
                        THEN Append(thrown, [recipient |-> Recipient, error |-> ErrorMessage(msg)])
                        ELSE thrown
           /\ caught' = IF threw THEN Append(caught, msg) ELSE caught
           /\ IF w.raised
              THEN /\ ret' = [success |-> FALSE, error |-> w.error, results |-> results,
                              summary |-> NoSummary]
                   /\ dpc' = "returned"
                   /\ UNCHANGED results
              ELSE /\ results' = Append(results, [recipient |-> Recipient, type |-> RecipientType,
                                                  success |-> w.success, error |-> w.error])
                   /\ dpc' = "pushed"
                   /\ UNCHANGED ret

\* mutant of LastConnectAttempt: one attempt more than EMAIL_MAX_RETRIES
LastConnectAttempt_OneMore(k) == k = EMAIL_MAX_RETRIES + 1

\* if (attempt === retries) throw new Error(`Failed to create SOAP client after ...`)
LastConnectAttempt(k) == k = EMAIL_MAX_RETRIES

\* createSoapClientWithRetry: one pass of its loop (createClientAsync, then the wait)
CreateSoapClientAttempt ==
    /\ dpc = "connect"
    /\ connects' = connects + 1
    /\ calls' = calls + 1
    /\ \E out \in TransportOutcomes :
          IF out = "ok"
          THEN /\ handles' = handles + 1
               /\ dpc' = "send"
               /\ attempt' = 1
               /\ UNCHANGED <<waits, thrown, caught, results, ret, cleanups, destroyed>>
          ELSE IF LastConnectAttempt(attempt)
          THEN /\ UNCHANGED <<handles, attempt, waits>>
               /\ Settle(TRUE, ConnectFailure(out))
          ELSE /\ waits' = Append(waits, ConnectDelay(attempt))
               /\ attempt' = attempt + 1
               /\ UNCHANGED <<dpc, handles, thrown, caught, results, ret, cleanups, destroyed>>
    /\ UNCHANGED <<job, gateway, sent, cur, posts, pauses, lifecycle>>

\* mutant of SendMailAttempt: the loop goes on after a call that resolved
SendMailAttempt_NoReturn ==
    /\ dpc = "send"
    /\ posts' = posts + 1
    /\ calls' = calls + 1
    /\ UNCHANGED <<job, gateway, cur, connects, handles, pauses, lifecycle>>
    /\ \E out \in TransportOutcomes :
          IF out = "ok" /\ attempt = SEND_RETRIES
          THEN /\ sent' = sent + 1
               /\ Settle(FALSE, NULL)
               /\ UNCHANGED <<attempt, waits>>
          ELSE IF out = "ok"
          THEN /\ sent' = sent + 1
               /\ attempt' = attempt + 1
               /\ UNCHANGED <<dpc, waits, thrown, caught, results, ret, cleanups, destroyed>>
          ELSE IF attempt = SEND_RETRIES
          THEN /\ Settle(TRUE, out)
               /\ UNCHANGED <<attempt, waits, sent>>
          ELSE /\ waits' = Append(waits, SendDelay(attempt))
               /\ attempt' = attempt + 1
               /\ UNCHANGED <<dpc, thrown, caught, results, ret, cleanups, destroyed, sent>>

\* sendEmailWithRetry: one pass of its loop (SendMailHTMLAsync, then the wait)
SendMailAttempt ==
    /\ dpc = "send"
    /\ posts' = posts + 1
    /\ calls' = calls + 1
    /\ UNCHANGED <<job, gateway, cur, connects, handles, pauses, lifecycle>>
    /\ \E out \in TransportOutcomes :
          IF out = "ok"
          THEN /\ sent' = sent + 1
               /\ Settle(FALSE, NULL)
               /\ UNCHANGED <<attempt, waits>>
          ELSE IF attempt = SEND_RETRIES
          THEN /\ Settle(TRUE, out)
               /\ UNCHANGED <<attempt, waits, sent>>
          ELSE /\ waits' = Append(waits, SendDelay(attempt))
               /\ attempt' = attempt + 1
               /\ UNCHANGED <<dpc, thrown, caught, results, ret, cleanups, destroyed, sent>>

\* after a copy the loop pauses
Paused == IF cur > 0 THEN pauses + 1 ELSE pauses

\* mutant of NextCc: the loop takes the last entry first
NextCc_LastFirst ==
    /\ dpc = "pushed"
    /\ CcLeft # {}
    /\ cur' = CHOOSE k \in CcLeft : \A l \in CcLeft : k >= l
    /\ pauses' = Paused
    /\ dpc' = "connect"
    /\ attempt' = 1 /\ connects' = 0 /\ handles' = 0 /\ posts' = 0 /\ waits' = <<>>
    /\ cleanups' = 0 /\ destroyed' = NULL /\ sent' = 0
    /\ UNCHANGED <<job, gateway, thrown, caught, results, ret, calls, lifecycle>>

\* the loop over ccList goes on to the next entry that is not the primary recipient
NextCc ==
    /\ dpc = "pushed"
    /\ CcLeft # {}
    /\ cur' = CHOOSE k \in CcLeft : \A l \in CcLeft : k <= l
    /\ pauses' = Paused
    /\ dpc' = "connect"
    /\ attempt' = 1 /\ connects' = 0 /\ handles' = 0 /\ posts' = 0 /\ waits' = <<>>
    /\ cleanups' = 0 /\ destroyed' = NULL /\ sent' = 0
    /\ UNCHANGED <<job, gateway, thrown, caught, results, ret, calls, lifecycle>>

\* mutant of ReturnResult: the outcome of the job is written to the audit log
ReturnResult_Logged ==
    /\ dpc = "pushed"
    /\ CcLeft = {}
    /\ pauses' = Paused
    /\ ret' = DispatchResult(results)
    /\ dpc' = "returned"
    /\ history' = Append(history, HistoryRow(1, 2, "status", NULL, NULL, "Notification sent"))
    /\ UNCHANGED <<job, gateway, sent, cur, attempt, connects, handles, posts, waits, thrown,
                   caught, results, calls, cleanups, destroyed>>
    /\ UNCHANGED <<tickets, jobs, req, nreq, clock, faults, seeded, approvedWrites,
                   rejectedWrites, everResolved, adminActions>>

\* the loop is over: the summary is computed and returned
ReturnResult ==
    /\ dpc = "pushed"
    /\ CcLeft = {}
    /\ pauses' = Paused
    /\ ret' = DispatchResult(results)
    /\ dpc' = "returned"
    /\ UNCHANGED <<job, gateway, sent, cur, attempt, connects, handles, posts, waits, thrown,
                   caught, results, calls, cleanups, destroyed, lifecycle>>

MailerOff ==
    /\ dpc = "off" /\ job = NoJob /\ cur = 0 /\ attempt = 1
    /\ connects = 0 /\ handles = 0 /\ posts = 0 /\ waits = <<>> /\ pauses = 0
    /\ thrown = <<>> /\ results = <<>> /\ ret = NoReturn
    /\ calls = 0 /\ cleanups = 0 /\ destroyed = NULL
    /\ gateway = {} /\ caught = <<>> /\ sent = 0

\* ------------------------------------------------------ specifications
\* The store as earlier requests left it (the database outlives the process):
\*   "empty"    no ticket yet
\*   "open"     one ticket just created by the general user
\*   "pending"  one ticket just created by the digital-team member
\*   "approved" that ticket after the manager approved it
CreatedBy(u) ==
    NewTicket(u, Role[u] = "digital_team" \/ Role[u] = "admin",
              IF Role[u] = "digital_team" \/ Role[u] = "admin" THEN "Pending Approval" ELSE "Open")

CreatedRow(u) == HistoryRow(1, u, "status", NULL, CreatedBy(u).status, "Ticket created")

Seeds == {"empty", "open", "pending", "approved"}

InitStore(seeds) ==
    /\ \E seed \in seeds :
          /\ seeded = seed
          /\ tickets = CASE seed = "empty" -> <<>>
                         [] seed = "open" -> <<CreatedBy(1)>>
                         [] seed = "pending" -> <<CreatedBy(2)>>
                         [] seed = "approved" ->
                              <<[CreatedBy(2) EXCEPT !.status = "Open", !.approved_by = 3,
                                                     !.approved_at = 2]>>
          /\ history = CASE seed = "empty" -> <<>>
                         [] seed = "open" -> <<CreatedRow(1)>>
                         [] seed = "pending" -> <<CreatedRow(2)>>
                         [] seed = "approved" ->
                              <<CreatedRow(2),
                                HistoryRow(1, 3, "status", "Pending Approval", "Open", "Ticket approved")>>
          /\ clock = CASE seed = "empty" -> 1
                       [] seed = "approved" -> 3
                       [] OTHER -> 2
          /\ approvedWrites = [t \in TicketIds |-> IF t = 1 /\ seed = "approved" THEN 1 ELSE 0]
    /\ jobs = <<>>
    /\ adminActions = <<>>
    /\ req = [s \in Slots |-> IdleReq]
    /\ nreq = 0
    /\ rejectedWrites = [t \in TicketIds |-> 0]
    /\ everResolved = [t \in TicketIds |-> FALSE]

\* the storage executes every statement
Init == InitStore(Seeds) /\ faults = FALSE /\ MailerOff

\* the storage may fail any statement
InitFault == InitStore(Seeds) /\ faults = TRUE /\ MailerOff

Next ==
    \E s \in Slots :
        \/ CreateTicketRequest(s) \/ CreateInsert(s) \/ CreateLog(s)
        \/ CreateNotify(s) \/ CreateRespond(s)
        \/ UpdateStatusRequest(s) \/ UpdateTicketStatus(s) \/ UpdateLogStatus(s) \/ UpdateLogAssign(s)
        \/ RemarkRequest(s) \/ RemarkSelect(s) \/ RemarkUpdate(s) \/ RemarkLogRemark(s)
        \/ RemarkLogStatus(s) \/ RemarkNotify(s) \/ RemarkRespond(s)
        \/ ApproveRequest(s) \/ ApproveTicket(s) \/ ApproveLog(s)
        \/ RejectRequest(s) \/ RejectTicket(s) \/ RejectLog(s)
        \/ DeleteTicketRequest(s) \/ DeleteSelect(s) \/ DeleteUpdate(s) \/ DeleteLog(s)

Spec == Init /\ [][Next]_vars

SpecFault == InitFault /\ [][Next]_vars

\* one call of sendEmailWithCC, for every job and every behaviour of the transport,
\* while the store holds a ticket that waits for approval
InitDispatch ==
    /\ InitStore({"pending"}) /\ faults = FALSE
    /\ dpc = "called" /\ job \in DispatchJobs /\ cur = 0 /\ attempt = 1
    /\ connects = 0 /\ handles = 0 /\ posts = 0 /\ waits = <<>> /\ pauses = 0
    /\ thrown = <<>> /\ results = <<>> /\ ret = NoReturn
    /\ calls = 0 /\ cleanups = 0 /\ destroyed = NULL
    /\ gateway = TransportErrors /\ caught = <<>> /\ sent = 0

NextDispatch ==
    \/ SendEmailWithCC
    \/ CreateSoapClientAttempt
    \/ SendMailAttempt
    \/ NextCc
    \/ ReturnResult

SpecDispatch == InitDispatch /\ [][NextDispatch]_vars

\* one call of sendEmailWithCC to one recipient, or to one recipient with one
\* copy, for every failure the gateway may report
InitClassify ==
    /\ InitStore({"pending"}) /\ faults = FALSE
    /\ dpc = "called" /\ cur = 0 /\ attempt = 1
    /\ job \in [to : {MANAGER_EMAIL}, cc : {<<>>, <<Email[2]>>}]
    /\ connects = 0 /\ handles = 0 /\ posts = 0 /\ waits = <<>> /\ pauses = 0
    /\ thrown = <<>> /\ results = <<>> /\ ret = NoReturn
    /\ calls = 0 /\ cleanups = 0 /\ destroyed = NULL
    /\ gateway = GatewayErrors /\ caught = <<>> /\ sent = 0

SpecClassify == InitClassify /\ [][NextDispatch]_vars

\* the same call when every gateway call returns and every timer fires: the run of
\* sendEmailWithCC goes on as long as it has a step to take (the failures of the
\* gateway all carry one message here: what a message says does not change the
\* steps that follow)
InitDispatchLive ==
    /\ InitStore({"pending"}) /\ faults = FALSE
    /\ dpc = "called" /\ job \in DispatchJobs /\ cur = 0 /\ attempt = 1
    /\ connects = 0 /\ handles = 0 /\ posts = 0 /\ waits = <<>> /\ pauses = 0
    /\ thrown = <<>> /\ results = <<>> /\ ret = NoReturn
    /\ calls = 0 /\ cleanups = 0 /\ destroyed = NULL
    /\ gateway = {"fault"} /\ caught = <<>> /\ sent = 0

SpecDispatchLive == InitDispatchLive /\ [][NextDispatch]_vars /\ WF_vars(NextDispatch)

TypeOK ==
    /\ Len(tickets) <= MaxTickets
    /\ nreq \in 0..MaxRequests

\* ------------------------------------------------------------ properties
InFlight(s) == req[s].pc \notin {"idle", "done"}

Quiet == \A s \in Slots : ~InFlight(s)

\* the step is one of request s (only the request's own steps change its record)
Stepped(s) == req'[s] # req[s]

CountRows(P(_)) == Cardinality({i \in 1..Len(history) : P(history[i])})

\* C1: every stored ticket's status is one of the six defined values.
C1_StatusIsDefined ==
    \A t \in 1..Len(tickets) : tickets[t].status \in Statuses

\* C2: two approveTicket calls running concurrently on a ticket that was created
\* Pending Approval, with no other request around: once both have returned,
\* exactly one got 200 and the other got the 404 "not pending approval" answer,
\* the ticket is Open with the winner as approved_by and an approval timestamp,
\* it was approved once and there is one 'Ticket approved' audit entry.
IsApproval(h) == h.change_reason = "Ticket approved"

TwoApprovalsReturned ==
    /\ seeded = "pending" /\ nreq = 2
    /\ \A s \in {1, 2} : /\ req[s].pc = "done" /\ req[s].op = "approve" /\ req[s].id = 1
                         /\ req[s].code # 403

C2_OneApprovalWins ==
    TwoApprovalsReturned =>
        \E w \in {1, 2} :
            /\ req[w].code = 200
            /\ req[3 - w].code = 404
            /\ tickets[1].status = "Open"
            /\ tickets[1].approved_by = req[w].user
            /\ tickets[1].approved_at # 0
            /\ approvedWrites[1] = 1
            /\ CountRows(IsApproval) = 1

C2_Witness ==
    /\ TwoApprovalsReturned
    /\ req[1].user # req[2].user
    /\ req[2].code = 200 /\ req[1].code = 404

\* C3: approveTicket or rejectTicket whose UPDATE finds an existing ticket that
\* is not in Pending Approval answers with an error and changes neither the
\* ticket table nor the audit log, and starts no notification.
AtApproval(s) == req[s].pc \in {"a_update", "j_update"}

C3_NotPendingNoEffect ==
    [][\A s \in Slots :
          (/\ AtApproval(s) /\ Stepped(s)
           /\ Exists(req[s].id)
           /\ tickets[req[s].id].status # "Pending Approval")
          => /\ req'[s].pc = "done" /\ req'[s].code >= 400
             /\ tickets' = tickets /\ history' = history /\ jobs' = jobs]_vars

C3_Witness ==
    /\ req[1].pc = "done" /\ req[1].op = "approve" /\ req[1].code = 404
    /\ req[2].pc = "done" /\ req[2].op = "reject" /\ req[2].code = 404
    /\ Exists(1) /\ req[1].id = 1 /\ req[2].id = 1
    /\ tickets[1].status = "Open" /\ tickets[1].rejected_by = 0
    /\ Len(history) = 2 /\ jobs = <<>>

\* C4: a ticket leaves Pending Approval only by the UPDATE of approveTicket or
\* of rejectTicket.
C4_PendingLeftOnlyByApproval ==
    [][\A t \in 1..Len(tickets) :
          (tickets[t].status = "Pending Approval" /\ tickets'[t].status # "Pending Approval")
          => \E s \in Slots : AtApproval(s) /\ Stepped(s) /\ req[s].id = t]_vars

\* C5 (as stated): the approve controller runs only for a manager, the status
\* and remark controllers only for the roles their routes list.
ControllerRunsFor(s, roles) == InFlight(s) => Role[req[s].user] \in roles

IsAdminUser(u) == Role[u] = "admin" \/ is_admin[u]

C6_RejectedIsTerminal ==
    [][\A t \in 1..Len(tickets) :
          tickets[t].status = "Rejected" => tickets'[t].status = "Rejected"]_vars

\* C7: a Closed ticket keeps its status, a Resolved ticket stays Resolved or
\* becomes Closed.
C7_ClosedAndResolvedTerminal ==
    [][\A t \in 1..Len(tickets) :
          /\ tickets[t].status = "Closed" => tickets'[t].status = "Closed"
          /\ tickets[t].status = "Resolved" => tickets'[t].status \in {"Resolved", "Closed"}]_vars

\* C8 (as stated): each successful transition appends exactly one audit entry,
\* whose new_value is the resulting status.  Every transition is one write to
\* Tickets and ticks the clock once, so with no request in flight the log has
\* as many entries as the clock has ticks.
C8_OneEntryPerTransition ==
    Quiet => Len(history) = clock - 1

\* C8 (amended): each successful transition appends exactly one audit entry of
\* field 'status', whose new_value is the status that transition stored; the
\* other entries are the 'remark' entry of addTicketRemark and the 'assigned_to'
\* entry of updateTicketStatus.
IsStatusRow(h) == h.field_name = "status"

AwaitsStatusRow(s) ==
    req[s].pc \in {"c_log", "u_log_status", "r_log_remark", "r_log_status", "a_log", "j_log"}

C8_StatusEntryInv ==
    /\ clock - 1 = CountRows(IsStatusRow) + Cardinality({s \in Slots : AwaitsStatusRow(s)})
    /\ \A i \in 1..Len(history) :
          ~IsStatusRow(history[i]) => history[i].field_name \in {"remark", "assigned_to"}

C8_OneStatusEntryPerTransition ==
    /\ []C8_StatusEntryInv
    /\ [][\A s \in Slots :
             (Stepped(s) /\ history' # history)
             => /\ Len(history') = Len(history) + 1
                /\ SubSeq(history', 1, Len(history)) = history
                /\ LET h == history'[Len(history')]
                   IN  /\ h.ticket_id = req[s].id
                       /\ h.changed_by = req[s].user
                       /\ IsStatusRow(h) => h.new_value = req[s].wrote]_vars

C8_Witness ==
    /\ Quiet /\ nreq = 2
    /\ Len(history) = 4
    /\ history[2].change_reason = "Ticket approved"
    /\ history[3].change_reason = "Status updated" /\ history[3].new_value = "Resolved"
    /\ history[4].change_reason = "Ticket assigned"
    /\ tickets[1].status = "Resolved"

\* C9: the approval fields of a ticket are written at most once, so are the
\* rejection fields, and no ticket has both an approval and a rejection.
C9_ApprovalWrittenOnce ==
    \A t \in 1..Len(tickets) :
        /\ approvedWrites[t] <= 1
        /\ rejectedWrites[t] <= 1
        /\ ~(tickets[t].approved_by # 0 /\ tickets[t].rejected_by # 0)

\* C10: resolved_at is set exactly for the tickets whose status has been
\* Resolved at some point.
C10_ResolvedAtIffEverResolved ==
    \A t \in 1..Len(tickets) : (tickets[t].resolved_at # 0) <=> everResolved[t]

C10_Witness ==
    /\ Exists(1) /\ tickets[1].resolved_at # 0
    /\ tickets[1].status = "Open" /\ tickets[1].remark = "r"

\* C11: the statement of updateTicketStatus or addTicketRemark that looks the
\* ticket up, run for an id no ticket has, answers 404 and leaves the tickets,
\* the audit log and the notification jobs as they were.
AtLookup(s) ==
    \/ req[s].op = "status" /\ req[s].pc = "u_update"
    \/ req[s].op = "remark" /\ req[s].pc \in {"r_select", "r_update"}

C11_MissingTicketNotFound ==
    [][\A s \in Slots :
          (AtLookup(s) /\ Stepped(s) /\ ~Exists(req[s].id))
          => /\ req'[s].pc = "done" /\ req'[s].code = 404
             /\ tickets' = tickets /\ history' = history /\ jobs' = jobs]_vars

C11_Witness ==
    /\ tickets = <<>> /\ history = <<>> /\ jobs = <<>>
    /\ req[1].pc = "done" /\ req[1].op = "status" /\ req[1].code = 404
    /\ req[2].pc = "done" /\ req[2].op = "remark" /\ req[2].code = 404

\* C12: the INSERT of createTicket stores, for a creator of any role, status
\* Pending Approval with requires_manager_approval set when the role is
\* digital_team or admin and status Open with the flag clear otherwise; and once
\* the creation's audit write is done the ticket has exactly one 'Ticket created'
\* entry, a 'status' entry by the creator from NULL to that initial status.
FlaggedRoles == {"digital_team", "admin"}

InitialStatus(u) == IF Role[u] \in FlaggedRoles THEN "Pending Approval" ELSE "Open"

CreationRows(t) ==
    {i \in 1..Len(history) :
        history[i].ticket_id = t /\ history[i].change_reason = "Ticket created"}

BeforeCreationLog(t) == \E s \in Slots : req[s].pc = "c_log" /\ req[s].id = t

C12_CreatedEntryInv ==
    \A t \in 1..Len(tickets) :
       /\ Cardinality(CreationRows(t)) = IF BeforeCreationLog(t) THEN 0 ELSE 1
       /\ \A i \in CreationRows(t) :
             /\ history[i].field_name = "status"
             /\ history[i].old_value = NULL
             /\ history[i].new_value = InitialStatus(tickets[t].created_by)
             /\ history[i].changed_by = tickets[t].created_by

C12_InitialStatusByRole ==
    /\ []C12_CreatedEntryInv
    /\ [][\A s \in Slots :
             (req[s].pc = "c_insert" /\ Stepped(s))
             => /\ Len(tickets') = Len(tickets) + 1
                /\ SubSeq(tickets', 1, Len(tickets)) = tickets
                /\ LET t == tickets'[Len(tickets')]
                   IN  /\ t.created_by = req[s].user
                       /\ t.status = InitialStatus(req[s].user)
                       /\ t.requires_manager_approval = (Role[req[s].user] \in FlaggedRoles)]_vars

C12_Witness ==
    /\ seeded = "empty" /\ Len(tickets) = 1
    /\ Role[tickets[1].created_by] = "admin"
    /\ tickets[1].status = "Pending Approval" /\ tickets[1].requires_manager_approval
    /\ Len(history) = 1 /\ history[1].change_reason = "Ticket created"
    /\ history[1].new_value = "Pending Approval"
    /\ req[1].pc = "done" /\ req[1].op = "create" /\ req[1].code = 201

\* C13: every TicketCreated job goes to the digital-team address, with the
\* creator's address as its only CC, except that the CC list is empty when the
\* creator's role is digital_team or manager.
C13_TicketCreatedRecipients ==
    \A j \in 1..Len(jobs) :
       jobs[j].kind = "TicketCreated"
       => LET u == tickets[jobs[j].ticket].created_by
          IN  /\ jobs[j].to = DIGITAL_TEAM_EMAIL
              /\ jobs[j].cc = IF Role[u] \in {"digital_team", "manager"}
                              THEN <<>> ELSE <<Email[u]>>

\* C14: the notification started by the creation of a ticket that was stored
\* Pending Approval is one ApprovalRequired job for that ticket, to the manager
\* address, with the creator's address as its only CC.
C14_ApprovalRequiredRecipients ==
    [][\A s \in Slots :
          (req[s].pc = "c_notify" /\ Stepped(s) /\ req[s].wrote = "Pending Approval")
          => jobs' = Append(jobs, [kind |-> "ApprovalRequired", ticket |-> req[s].id,
                                   to |-> MANAGER_EMAIL,
                                   cc |-> <<Email[tickets[req[s].id].created_by]>>])]_vars

C14_Witness ==
    /\ seeded = "empty" /\ Len(tickets) = 1 /\ Role[tickets[1].created_by] = "digital_team"
    /\ jobs = <<[kind |-> "ApprovalRequired", ticket |-> 1, to |-> MANAGER_EMAIL,
                 cc |-> <<Email[2]>>]>>
    /\ req[1].pc = "done" /\ req[1].code = 201

\* C15: a remark or status change that was committed and answered 200 has
\* started a TicketUpdated job for its ticket, to the ticket creator's address,
\* with the acting user's address as CC unless it is the creator's own address.
UpdatedJobFor(id, actor) ==
    [kind |-> "TicketUpdated", ticket |-> id, to |-> Email[tickets[id].created_by],
     cc |-> IF Email[actor] # Email[tickets[id].created_by] THEN <<Email[actor]>> ELSE <<>>]

C15_EveryChangeNotifies ==
    [][\A s \in Slots :
          (req[s].op \in {"status", "remark"} /\ Stepped(s)
             /\ req'[s].pc = "done" /\ req'[s].code = 200)
          => \E j \in 1..Len(jobs') : jobs'[j] = UpdatedJobFor(req[s].id, req[s].user)]_vars

\* ------------------------------------------------- dispatch properties
Returned == dpc = "returned"

Failed(r) == ~r.success
Succeeded(r) == r.success

\* the CC entries that differ from the primary recipient, in order
OtherCc == SelectSeq(job.cc, LAMBDA a : a # job.to)

\* C16: a returned job has made one send per recipient: the first to the
\* primary recipient, of type primary, then one copy for each CC entry that
\* differs from the primary recipient, in list order; a CC entry equal to the
\* primary recipient gets none, so the primary address appears once.
C16_PrimaryNotCopied ==
    Returned =>
       /\ Len(results) = 1 + Len(OtherCc)
       /\ results[1].recipient = job.to /\ results[1].type = "primary"
       /\ \A i \in 1..Len(OtherCc) :
             results[i + 1].recipient = OtherCc[i] /\ results[i + 1].type = "cc"
       /\ Cardinality({i \in 1..Len(results) : results[i].recipient = job.to}) = 1

C16_Witness ==
    /\ Returned
    /\ job = [to |-> MANAGER_EMAIL, cc |-> <<MANAGER_EMAIL, Email[2]>>]
    /\ Len(results) = 2
    /\ results[1].recipient = MANAGER_EMAIL /\ results[2].recipient = Email[2]

\* C17: the returned object has success set exactly when some recipient's send
\* succeeded, and its summary counts add up: total = successful + failed =
\* the number of recipients sent to, successful = the number that succeeded.
C17_SummaryAddsUp ==
    Returned =>
       /\ ret.success <=> (\E i \in 1..Len(results) : results[i].success)
       /\ ret.summary.total = ret.summary.successful + ret.summary.failed
       /\ ret.summary.total = 1 + Len(OtherCc)
       /\ ret.summary.successful = Len(SelectSeq(results, Succeeded))
       /\ ret.summary.failed = Len(SelectSeq(results, Failed))

C17_Witness ==
    /\ Returned /\ Len(results) = 2
    /\ ~results[1].success /\ results[2].success
    /\ ret.success /\ ret.summary.failed = 1 /\ ret.summary.total = 2

\* C18: for one recipient createClientAsync is called at most 3 times; failed
\* call k, when it is not the third, is followed by a wait of 2000 * 2^(k-1) ms
\* and call k + 1; after a failed third call nothing is posted for the
\* recipient and it is recorded as failed.
C18_ConnectInv ==
    /\ connects <= 3
    /\ dpc = "connect" =>
          /\ attempt \in 1..3 /\ connects = attempt - 1 /\ posts = 0
          /\ waits = [k \in 1..(attempt - 1) |-> 2000 * 2^(k - 1)]

C18_ConnectRetries ==
    /\ []C18_ConnectInv
    /\ [][(dpc = "connect" /\ dpc' # "send")
          => IF attempt < 3
             THEN /\ dpc' = "connect" /\ attempt' = attempt + 1
                  /\ waits' = Append(waits, 2000 * 2^(attempt - 1))
                  /\ results' = results
             ELSE /\ dpc' = "pushed" /\ posts' = 0 /\ handles' = 0
                  /\ Len(results') = Len(results) + 1
                  /\ results'[Len(results')].recipient = Recipient
                  /\ ~results'[Len(results')].success]_vars

C18_Witness ==
    /\ dpc = "pushed" /\ cur = 1
    /\ connects = 3 /\ waits = <<2000, 4000>> /\ posts = 0 /\ handles = 0
    /\ Len(results) = 2 /\ results[1].success /\ ~results[2].success

\* C19: for one recipient SendMailHTMLAsync is called at most 2 times, always
\* on the one client created for it; failed call k, when it is not the second,
\* is followed by a wait of 3000 * k ms; no send step creates a client; after a
\* failed second call the recipient is recorded as failed.
C19_SendInv ==
    /\ posts <= 2 /\ handles <= 1
    /\ posts > 0 => handles = 1
    /\ dpc = "send" => attempt \in 1..2 /\ posts = attempt - 1 /\ handles = 1

C19_SendRetries ==
    /\ []C19_SendInv
    /\ [][dpc = "send"
          => /\ handles' = handles /\ connects' = connects
             /\ posts' = posts + 1
             /\ \/ /\ dpc' = "send" /\ attempt = 1 /\ attempt' = 2
                   /\ waits' = Append(waits, 3000 * attempt)
                   /\ results' = results
                \/ /\ dpc' = "pushed" /\ waits' = waits
                   /\ Len(results') = Len(results) + 1
                   /\ results'[Len(results')].recipient = Recipient
                   /\ ~results'[Len(results')].success => attempt = 2]_vars

C19_Witness ==
    /\ dpc = "pushed" /\ cur = 0
    /\ connects = 2 /\ handles = 1 /\ posts = 2 /\ waits = <<2000, 3000>>
    /\ Len(results) = 1 /\ ~results[1].success

\* C20: whatever the transport does, the job returns from its try block: no
\* error reaches the catch block of sendEmailWithCC or its caller, and the
\* errors sendEmail threw are exactly the failed entries of the returned
\* results, in order, each with its recipient and a non-empty message; an entry
\* of a send that succeeded carries no error.
C20_FailuresBecomeEntries ==
    /\ dpc \in {"called", "connect", "send", "pushed", "returned"}
    /\ Returned =>
          /\ ret.error = NULL
          /\ ret.results = results
          /\ LET failed == SelectSeq(results, Failed)
             IN  /\ Len(failed) = Len(thrown)
                 /\ \A i \in 1..Len(failed) :
                       /\ failed[i].recipient = thrown[i].recipient
                       /\ failed[i].error = thrown[i].error
                       /\ failed[i].error \notin {NULL, ""}
          /\ \A i \in 1..Len(results) : results[i].success => results[i].error = NULL

C20_Witness ==
    /\ Returned /\ ~ret.success
    /\ Len(thrown) = 2 /\ Len(ret.results) = 2
    /\ thrown[1].error = "Email service timeout - this may be due to Azure network restrictions. Please check the email service availability."
    /\ thrown[2].error = "fault"
    /\ ret.results[2].error = "fault" /\ ret.summary.failed = 2

\* ------------------------------------------- lifecycle properties (2)
\* C27: an approveTicket and a rejectTicket call running concurrently on a
\* ticket that was created Pending Approval, with no other request around:
\* once both have returned, one got 200 and the other 404; if the approval
\* won the ticket is Open with only its approval fields set, if the rejection
\* won it is Rejected with only its rejection fields set; the winner's fields
\* were written once, the loser's never, and only the winner left an audit entry.
IsRejection(h) == h.change_reason = "Ticket rejected by manager"

ApproveAndRejectReturned ==
    /\ seeded = "pending" /\ nreq = 2
    /\ \A s \in {1, 2} : req[s].pc = "done" /\ req[s].id = 1 /\ req[s].code # 403
    /\ {req[1].op, req[2].op} = {"approve", "reject"}

C27_ApproveRejectRace ==
    ApproveAndRejectReturned =>
       \E w \in {1, 2} :
          /\ req[w].code = 200 /\ req[3 - w].code = 404
          /\ IF req[w].op = "approve"
             THEN /\ tickets[1].status = "Open"
                  /\ tickets[1].approved_by = req[w].user /\ tickets[1].approved_at # 0
                  /\ tickets[1].rejected_by = 0 /\ tickets[1].rejected_at = 0
                  /\ approvedWrites[1] = 1 /\ rejectedWrites[1] = 0
                  /\ CountRows(IsApproval) = 1 /\ CountRows(IsRejection) = 0
             ELSE /\ tickets[1].status = "Rejected"
                  /\ tickets[1].rejected_by = req[w].user /\ tickets[1].rejected_at # 0
                  /\ tickets[1].approved_by = 0 /\ tickets[1].approved_at = 0
                  /\ rejectedWrites[1] = 1 /\ approvedWrites[1] = 0
                  /\ CountRows(IsRejection) = 1 /\ CountRows(IsApproval) = 0

C27_Witness ==
    /\ ApproveAndRejectReturned
    /\ req[1].op = "approve" /\ req[1].code = 404
    /\ req[2].op = "reject" /\ req[2].code = 200
    /\ tickets[1].status = "Rejected"

\* C28: whenever no request is in flight, the latest 'status' audit entry of
\* every ticket carries the ticket's current status as its new_value.
StatusRowsOf(t) ==
    {i \in 1..Len(history) : history[i].ticket_id = t /\ IsStatusRow(history[i])}

C28_LatestEntryIsCurrentStatus ==
    Quiet =>
       \A t \in 1..Len(tickets) :
          StatusRowsOf(t) # {}
          => LET last == CHOOSE i \in StatusRowsOf(t) : \A k \in StatusRowsOf(t) : k <= i
             IN  history[last].new_value = tickets[t].status

\* C21: however the notifier of createTicket or addTicketRemark ends (all
\* recipients sent, some failed, all failed, or an exception), the step that
\* follows it answers 201 (creation) or 200 (remark) and leaves the tickets and
\* the audit log exactly as the committed operation wrote them.
AfterNotifier(s) == req[s].pc \in {"c_respond", "r_respond"}

C21_DispatchOutcomeInvisible ==
    [][\A s \in Slots :
          (AfterNotifier(s) /\ Stepped(s))
          => /\ req'[s].pc = "done"
             /\ req'[s].code = IF req[s].op = "create" THEN 201 ELSE 200
             /\ tickets' = tickets /\ history' = history]_vars

C21_Witness ==
    /\ req[1].pc = "done" /\ req[1].op = "create" /\ req[1].email = "threw" /\ req[1].code = 201
    /\ req[2].pc = "done" /\ req[2].op = "remark" /\ req[2].email = "all failed"
    /\ req[2].code = 200
    /\ Len(tickets) = 1 /\ tickets[1].remark = "r" /\ Len(jobs) = 2

\* C23: a notification job is started only by a request whose own statement
\* has written the ticket, and it is a job for that ticket; a request that
\* answers an error (400, 403, 404, 500) has written no ticket and has started
\* no job, and its last step starts none.
HasStartedJob(s) == req[s].pc \in {"c_respond", "r_respond"}

C23_JobAfterCommitInv ==
    \A s \in Slots : (req[s].pc \in {"c_notify", "r_notify"} \/ HasStartedJob(s))
                     => /\ req[s].wrote # NULL
                        /\ Exists(req[s].id)

C23_JobOnlyAfterCommit ==
    /\ []C23_JobAfterCommitInv
    /\ [][\A s \in Slots :
             Stepped(s)
             => /\ jobs' # jobs
                   => /\ req[s].wrote # NULL
                      /\ Len(jobs') = Len(jobs) + 1
                      /\ SubSeq(jobs', 1, Len(jobs)) = jobs
                      /\ jobs'[Len(jobs')].ticket = req[s].id
                /\ (req'[s].pc = "done" /\ req'[s].code >= 400)
                   => /\ jobs' = jobs
                      /\ req[s].wrote = NULL
                      /\ ~HasStartedJob(s)]_vars

C23_Witness ==
    /\ faults /\ seeded = "open"
    /\ req[1].pc = "done" /\ req[1].op = "remark" /\ req[1].code = 200
    /\ req[2].pc = "done" /\ req[2].op = "remark" /\ req[2].code = 500
    /\ Len(jobs) = 1 /\ Len(history) = 3

\* C25: a request whose statement has written the ticket never answers an
\* error afterwards, and each of its audit steps, whether the INSERT into
\* TicketHistory executed or failed, leaves the tickets as written and goes on
\* to the next step of the handler.
AtAuditWrite(s) ==
    req[s].pc \in {"c_log", "u_log_status", "u_log_assign", "r_log_remark", "r_log_status",
                   "a_log", "j_log"}

C25_AuditFailureSwallowed ==
    [][\A s \in Slots :
          /\ (Stepped(s) /\ req[s].wrote # NULL)
             => ~(req'[s].pc = "done" /\ req'[s].code >= 400)
          /\ (Stepped(s) /\ AtAuditWrite(s))
             => /\ tickets' = tickets
                /\ req'[s].pc # req[s].pc
                /\ req'[s].pc = "done" => req'[s].code = 200]_vars

C25_Witness ==
    /\ faults /\ seeded = "open" /\ Quiet /\ nreq = 1
    /\ req[1].pc = "done" /\ req[1].op = "status" /\ req[1].code = 200
    /\ tickets[1].status = "Resolved" /\ tickets[1].resolved_at # 0
    /\ Len(history) = 1

\* C26: every step of the system leaves the audit entries written so far in
\* place and unchanged: the log only grows at its end, and so does the sequence
\* of entries of each ticket, also when an admin deletes the ticket.
C26_AuditAppendOnly ==
    [][/\ Len(history') >= Len(history)
       /\ SubSeq(history', 1, Len(history)) = history]_vars

C26_Witness ==
    /\ seeded = "approved" /\ tickets[1].is_deleted
    /\ req[1].pc = "done" /\ req[1].op = "delete" /\ req[1].code = 200
    /\ Len(adminActions) = 1
    /\ Len(history) = 2 /\ history[2].change_reason = "Ticket approved"

\* ------------------------------------------- dispatch properties (2)
\* the CC entries before entry k that are not the primary recipient
CopiesBefore(k) == Cardinality({i \in 1..(k - 1) : job.cc[i] # job.to})

\* C22: every recipient that is not skipped gets a send procedure of its own,
\* whatever became of the recipients before it: the procedure starts from
\* scratch (first attempt, no call made, no client), it ends with one entry for
\* that recipient, pushed after a send that succeeded or after the last attempt
\* allowed failed; a failed entry is followed by the next recipient's
\* procedure, no entry is ever changed or dropped, and a returned job holds
\* one entry per recipient, so nobody is sent to twice.
C22_OneEntryEach ==
    /\ Returned => Len(results) = 1 + Len(OtherCc)
    /\ dpc = "pushed" =>
          /\ results[Len(results)].recipient = Recipient
          /\ Len(results) = IF cur = 0 THEN 1 ELSE 1 + CopiesBefore(cur + 1)

C22_IndependentSends ==
    /\ []C22_OneEntryEach
    /\ [][/\ cur' # cur =>
             /\ cur' \in (cur + 1)..Len(job.cc) /\ job.cc[cur'] # job.to
             /\ \A k \in (cur + 1)..(cur' - 1) : job.cc[k] = job.to
             /\ dpc' = "connect" /\ attempt' = 1
             /\ connects' = 0 /\ handles' = 0 /\ posts' = 0 /\ waits' = <<>>
             /\ results' = results
          /\ results' # results =>
             /\ Len(results') = Len(results) + 1
             /\ SubSeq(results', 1, Len(results)) = results
             /\ LET e == results'[Len(results')]
                IN  /\ e.recipient = Recipient
                    /\ e.success => handles' = 1 /\ posts' \in 1..2
                    /\ ~e.success => \/ handles' = 0 /\ connects' = 3
                                     \/ handles' = 1 /\ posts' = 2
          /\ (dpc = "pushed" /\ dpc' = "returned") =>
             \A k \in (cur + 1)..Len(job.cc) : job.cc[k] = job.to]_vars

C22_Witness ==
    /\ Returned
    /\ job = [to |-> MANAGER_EMAIL, cc |-> <<Email[2], Email[2]>>]
    /\ Len(results) = 3
    /\ ~results[1].success /\ ~results[2].success /\ results[3].success
    /\ connects = 1 /\ posts = 1

\* C29: the primary recipient's send is over and its entry is results[1] before
\* the send of any copy starts; the copies are sent one at a time in the order
\* of ccList (while a recipient is at hand every recipient before it has its
\* entry and no recipient after it has one, and the loop never goes back); so
\* the results hold the primary first, then the copies in list order.
C29_RecordedInOrder ==
    /\ cur > 0 => Len(results) >= 1 /\ results[1].type = "primary"
                                    /\ results[1].recipient = job.to
    /\ dpc \in {"connect", "send"} =>
          Len(results) = IF cur = 0 THEN 0 ELSE 1 + CopiesBefore(cur)
    /\ \A i \in 2..Len(results) :
          results[i].type = "cc" /\ results[i].recipient = OtherCc[i - 1]

C29_PrimaryThenCopiesInOrder ==
    /\ []C29_RecordedInOrder
    /\ [][/\ cur' >= cur
          /\ cur' # cur => dpc = "pushed" /\ Len(results) = 1 + CopiesBefore(cur')]_vars

C29_Witness ==
    /\ dpc = "send" /\ cur = 2
    /\ job = [to |-> MANAGER_EMAIL, cc |-> <<Email[2], Email[1]>>]
    /\ Len(results) = 2 /\ ~results[1].success
    /\ results[2].success /\ results[2].recipient = Email[2]

\* C30: a send procedure that obtained a client runs the cleanup of its finally
\* block once, in the step that settles the recipient's outcome and so before
\* the entry is pushed, both when the send succeeded and when the last attempt
\* failed; a procedure that obtained no client runs none; and the entry is what
\* the gateway calls made it (failed exactly when sendEmail threw, with that
\* error), also when client.destroy() threw or was missing.
C30_CleanupInv ==
    /\ cleanups <= 1
    /\ dpc \in {"called", "connect", "send"} => cleanups = 0
    /\ dpc = "pushed" => cleanups = handles
    /\ cleanups = 1 <=> destroyed # NULL

C30_WitnessSent ==
    /\ dpc = "pushed" /\ cur = 0
    /\ handles = 1 /\ posts = 1 /\ cleanups = 1 /\ destroyed = "threw"
    /\ Len(results) = 1 /\ results[1].success

\* C24: when every gateway call returns, every job that was started returns its
\* result, and by then it has made at most (1 + number of CC entries) * (3 + 2)
\* gateway calls: at most 3 createClientAsync and 2 SendMailHTMLAsync calls for
\* each recipient, so nothing is retried without bound.
C24_ReturnsWithinBound ==
    /\ <>(Returned /\ ret = DispatchResult(results))
    /\ [](calls <= (1 + Len(job.cc)) * (3 + 2))
    /\ [](connects <= 3 /\ posts <= 2 /\ calls >= connects + posts)

C24_Witness ==
    /\ Returned /\ ret.summary.total = 3
    /\ job = [to |-> MANAGER_EMAIL, cc |-> <<Email[2], Email[1]>>]
    /\ calls = 15

\* ------------------------------------------- lifecycle properties (3)
\* a createTicket or addTicketRemark request that was answered with success
Delivered(s) ==
    /\ req[s].pc = "done" /\ req[s].op \in {"create", "remark"}
    /\ req[s].code \in {200, 201}

\* C31: the answer of createTicket and addTicketRemark does not wait for the
\* notification job the request started: when the 201 or 200 is sent the job
\* has not yet delivered its outcome to the handler.
C31_ResponseBeforeJobEnds ==
    \A s \in Slots : Delivered(s) => req[s].email = NULL

\* what the handlers do instead: the answer is sent by the step that receives
\* the outcome of the awaited notifier
C31_ResponseAfterJobEnds ==
    /\ \A s \in Slots : Delivered(s) => req[s].email \in EmailOutcomes
    /\ \A s \in Slots : HasStartedJob(s) => req[s].email = NULL

\* ------------------------------------------- dispatch properties (3)
\* C32: within one job no address is sent to more than once, whatever ccList
\* holds: no two entries of the results name the same recipient.
C32_NoAddressTwice ==
    \A i, k \in 1..Len(results) : results[i].recipient = results[k].recipient => i = k

\* the category of a failure: the first of the checks, in the order timeout,
\* connection refused or host not found, connection reset, DNS resolution,
\* client configuration, that its message meets
C33_Category(msg) ==
    IF includes(msg, "timeout") \/ includes(msg, "ETIMEDOUT") THEN "timeout"
    ELSE IF includes(msg, "ECONNREFUSED") \/ includes(msg, "ENOTFOUND") THEN "connect"
    ELSE IF includes(msg, "ECONNRESET") THEN "reset"
    ELSE IF includes(msg, "getaddrinfo") THEN "dns"
    ELSE IF includes(msg, "httpClient.request is not a function") THEN "config"
    ELSE "other"

C33_Diagnostic(category, msg) ==
    CASE category = "timeout" ->
            "Email service timeout - this may be due to Azure network restrictions. Please check the email service availability."
      [] category = "connect" ->
            "Cannot connect to email service - please verify the service URL and network connectivity."
      [] category = "reset" ->
            "Connection reset by email service - this may be due to Azure SNAT port limitations."
      [] category = "dns" ->
            "DNS resolution failed - unable to resolve email service hostname."
      [] category = "config" ->
            "SOAP client configuration error - HTTP client incompatibility in Azure environment."
      [] OTHER -> msg

\* C33 as stated: the failure of a recipient is mapped to the diagnostic of the
\* first category it meets among timeout, connection refused or host not
\* found, connection reset, DNS resolution; a failure that meets none of them
\* keeps its original message.
C33_FourDiagnosticsOrOriginal ==
    \A i \in 1..Len(thrown) :
       thrown[i].error = IF C33_Category(caught[i]) \in {"config", "other"}
                         THEN caught[i]
                         ELSE C33_Diagnostic(C33_Category(caught[i]), caught[i])

\* C33, amended: the failure of a recipient is mapped to the diagnostic of the
\* first category it meets among timeout, connection refused or host not
\* found, connection reset, DNS resolution, client configuration; a failure
\* that meets none keeps its original message; failures of different
\* categories get different diagnostics; and the failed entries of the results
\* carry these diagnostics, in order.
C33_FirstMatchingCategory ==
    /\ Len(caught) = Len(thrown)
    /\ \A i \in 1..Len(thrown) :
          thrown[i].error = C33_Diagnostic(C33_Category(caught[i]), caught[i])
    /\ \A i, k \in 1..Len(thrown) :
          C33_Category(caught[i]) # C33_Category(caught[k])
          => thrown[i].error # thrown[k].error
    /\ LET failed == SelectSeq(results, Failed)
       IN  /\ Len(failed) = Len(thrown)
           /\ \A i \in 1..Len(failed) : failed[i].error = thrown[i].error

C33_Witness ==
    /\ Returned /\ Len(results) = 2
    /\ caught = <<"Failed to create SOAP client after 3 attempts: getaddrinfo ENOTFOUND",
                  "httpClient.request is not a function">>
    /\ results[1].error = "Cannot connect to email service - please verify the service URL and network connectivity."
    /\ results[2].error = "SOAP client configuration error - HTTP client incompatibility in Azure environment."

\* C34: no step of a dispatch job touches the store: from the call of
\* sendEmailWithCC to its return, through every connect, send, wait and the
\* summary, the tickets, the audit log and the admin log stay as they were
\* when the job began.
C34_DispatchLeavesStore ==
    /\ [](tickets = <<CreatedBy(2)>> /\ history = <<CreatedRow(2)>> /\ adminActions = <<>>)
    /\ [][tickets' = tickets /\ history' = history /\ adminActions' = adminActions
          /\ jobs' = jobs /\ clock' = clock]_vars

C34_Witness ==
    /\ Returned /\ calls = 15 /\ Len(results) = 3 /\ Len(waits) = 3 /\ pauses = 2
    /\ tickets[1].status = "Pending Approval" /\ Len(history) = 1

\* ------------------------------------------- lifecycle properties (4)
\* the step appends exactly this audit entry
Appends(ticketId, fieldName, newValue) ==
    /\ Len(history') = Len(history) + 1
    /\ SubSeq(history', 1, Len(history)) = history
    /\ LET e == history'[Len(history')]
       IN  /\ e.ticket_id = ticketId /\ e.field_name = fieldName
           /\ e.new_value = newValue

\* C35: once its UPDATE has written the ticket, updateTicketStatus appends one
\* status entry and then, exactly when an assignee was supplied, one
\* assigned_to entry, and answers 200; addTicketRemark appends one remark entry
\* and then one status entry; no other step of the two handlers appends an
\* entry; and the UPDATE of either writes resolved_at exactly when the status
\* it sets is Resolved.
C35_AuditEntriesPerOperation ==
    [][\A s \in Slots :
          Stepped(s) =>
             LET r == req[s]
                 q == req'[s]
             IN  /\ r.pc = "u_log_status" =>
                       /\ Appends(r.id, "status", r.status)
                       /\ IF r.assigned_to # 0 THEN q.pc = "u_log_assign"
                          ELSE q.pc = "done" /\ q.code = 200
                 /\ r.pc = "u_log_assign" =>
                       /\ r.assigned_to # 0
                       /\ Appends(r.id, "assigned_to", ToString(r.assigned_to))
                       /\ q.pc = "done" /\ q.code = 200
                 /\ r.pc = "r_log_remark" =>
                       Appends(r.id, "remark", r.remark) /\ q.pc = "r_log_status"
                 /\ r.pc = "r_log_status" =>
                       Appends(r.id, "status", r.status) /\ q.pc = "r_notify"
                 /\ r.pc \in {"u_update", "r_update"} =>
                       /\ history' = history
                       /\ q.pc = "done" => q.code # 200 /\ tickets' = tickets
                       /\ q.pc # "done" =>
                             /\ q.pc = IF r.pc = "u_update" THEN "u_log_status"
                                       ELSE "r_log_remark"
                             /\ tickets'[r.id].status = r.status
                             /\ tickets'[r.id].resolved_at # tickets[r.id].resolved_at
                                <=> r.status = "Resolved"
                 /\ (r.op \in {"status", "remark"}
                     /\ r.pc \notin {"u_log_status", "u_log_assign", "r_log_remark",
                                      "r_log_status"}) => history' = history]_vars

C35_Witness ==
    /\ req[1].pc = "done" /\ req[1].op = "status" /\ req[1].code = 200
    /\ req[2].pc = "done" /\ req[2].op = "remark" /\ req[2].code = 200
    /\ Len(history) = 5
    /\ history[2].field_name = "status" /\ history[2].new_value = "Resolved"
    /\ history[3].field_name = "assigned_to"
    /\ history[4].field_name = "remark" /\ history[5].field_name = "status"
    /\ history[5].new_value = "Open"
    /\ tickets[1].resolved_at # 0 /\ tickets[1].status = "Open"

\* C36: an audit write that failed is attempted again before the entry is given
\* up: the request whose audit write has just failed is still at that write.
C36_FailedAuditWriteRetried ==
    [][\A s \in Slots :
          (AtAuditWrite(s) /\ Stepped(s) /\ history' = history)
          => req'[s].pc = req[s].pc]_vars

\* C37: no ticket that requires approval is approved by the user who created
\* it: approved_by, once written, differs from created_by.
C37_NoSelfApproval ==
    \A t \in 1..Len(tickets) :
       (tickets[t].requires_manager_approval /\ tickets[t].approved_by # 0)
       => tickets[t].approved_by # tickets[t].created_by

\* C38: every ticket whose status is Pending Approval can be approved: it has
\* requires_manager_approval set, and the UPDATE of an approveTicket call that
\* finds its ticket in Pending Approval writes it.
C38_PendingIsApprovable ==
    /\ [](\A t \in 1..Len(tickets) :
            tickets[t].status = "Pending Approval" => tickets[t].requires_manager_approval)
    /\ [][\A s \in Slots :
             (req[s].pc = "a_update" /\ Stepped(s) /\ Exists(req[s].id)
              /\ tickets[req[s].id].status = "Pending Approval")
             => req'[s].pc = "a_log" /\ tickets'[req[s].id].status = "Open"]_vars

\* ------------------------------------------- dispatch properties (4)
\* C39: within the send procedure of one recipient no createClientAsync call is
\* made once a client was created, and no SendMailHTMLAsync call is made once
\* one resolved; so at most one call resolves per recipient, and the entry of
\* the recipient says success exactly when one did.
C39_Inv ==
    /\ handles <= 1 /\ sent <= 1
    /\ dpc = "connect" => handles = 0 /\ sent = 0
    /\ dpc = "send" => handles = 1 /\ sent = 0
    /\ dpc = "pushed" => results[Len(results)].success = (sent = 1)

CreationJobs(t) ==
    {j \in 1..Len(jobs) : jobs[j].ticket = t
                           /\ jobs[j].kind \in {"ApprovalRequired", "TicketCreated"}}

\* C40: a createTicket request that answered 201 has started exactly one job
\* for its ticket, an ApprovalRequired job when the ticket was stored Pending
\* Approval and a TicketCreated job otherwise; the job is started by one step
\* of the request, after its INSERT, and no other step of it starts one; no
\* step of an approveTicket or rejectTicket request starts a job.
C40_Inv ==
    \A s \in Slots :
       (req[s].op = "create" /\ req[s].pc = "done" /\ req[s].code = 201)
       => /\ Cardinality(CreationJobs(req[s].id)) = 1
          /\ \A j \in CreationJobs(req[s].id) :
                jobs[j].kind = IF tickets[req[s].id].requires_manager_approval
                               THEN "ApprovalRequired" ELSE "TicketCreated"

C40_OneJobPerCreation ==
    /\ []C40_Inv
    /\ [][\A s \in Slots :
             Stepped(s) =>
                /\ req[s].pc = "c_notify" =>
                      /\ Len(jobs') = Len(jobs) + 1
                      /\ SubSeq(jobs', 1, Len(jobs)) = jobs
                      /\ jobs'[Len(jobs')].ticket = req[s].id
                      /\ jobs'[Len(jobs')].kind = IF req[s].wrote = "Pending Approval"
                                                  THEN "ApprovalRequired"
                                                  ELSE "TicketCreated"
                /\ (req'[s].op = "create" /\ req[s].pc # "c_notify") => jobs' = jobs
                /\ req'[s].op \in {"approve", "reject"} => jobs' = jobs]_vars

C40_Witness ==
    /\ req[1].op = "create" /\ req[1].pc = "done" /\ req[1].code = 201
    /\ req[2].op = "approve" /\ req[2].pc = "done" /\ req[2].code = 200
    /\ Len(jobs) = 1 /\ jobs[1].kind = "ApprovalRequired" /\ jobs[1].ticket = 1
    /\ tickets[1].status = "Open" /\ tickets[1].approved_by = 3

====
